---- MODULE Spec2Model ----
(***************************************************************************)
(* Model of src/app.py: a Flask service that flattens an uploaded workbook *)
(* into a JSON structure.  Python values are modelled as tagged records so *)
(* that truthiness, None and the type of an emitted value are observable.  *)
(* A JSON response body is modelled by the Python structure handed to      *)
(* jsonify (dicts as functions over their keys, lists as sequences).       *)
(***************************************************************************)
EXTENDS Integers, Sequences, FiniteSets, TLC

VARIABLES request, response, arg, ret, pc, loadCalls, faultLog

vars == <<request, response, arg, ret, pc, loadCalls, faultLog>>

\* ---------------------------------------------------------------- bounds
MaxSheets == 2
MaxRows == 2
MaxCols == 2
MaxRules == 3
MaxCharts == 2

\* ------------------------------------------------------- Python values
PyNone == [t |-> "none"]
PyStr(s) == [t |-> "str", s |-> s]
PyInt(i) == [t |-> "int", i |-> i]
PyBool(b) == [t |-> "bool", b |-> b]
PyList(l) == [t |-> "list", l |-> l]
PyDict(d) == [t |-> "dict", d |-> d]

EmptyMap == [k \in {} |-> PyNone]

IsNone(v) == v.t = "none"
IsStr(v) == v.t = "str"
IsInt(v) == v.t = "int"

\* Python truth value testing (objects without __bool__/__len__ are true).
Truthy(v) ==
  CASE v.t = "none" -> FALSE
    [] v.t = "bool" -> v.b
    [] v.t = "int" -> v.i # 0
    [] v.t = "str" -> v.s # ""
    [] v.t = "list" -> Len(v.l) > 0
    [] v.t = "dict" -> DOMAIN v.d # {}
    [] OTHER -> TRUE

isinstance(v, cls) == v.t = "obj" /\ v.cls = cls

\* {k: v for k, v in d.items() if v}
DictFilter(d) == [k \in {x \in DOMAIN d : Truthy(d[x])} |-> d[k]]

Map(f(_), s) == [i \in 1..Len(s) |-> f(s[i])]

RECURSIVE Flatten(_)
Flatten(ss) == IF Len(ss) = 0 THEN <<>> ELSE Head(ss) \o Flatten(Tail(ss))

\* ------------------------------------------------------ colour handling
get_serializable_color(color_obj) ==
  IF Truthy(color_obj) /\ isinstance(color_obj, "Color") /\ Truthy(color_obj.rgb)
  THEN color_obj.rgb
  ELSE PyNone

\* ------------------------------------------------------ style normalizer
get_side_style(side) ==
  IF Truthy(side) /\ Truthy(side.style)
  THEN PyDict([style |-> side.style, color |-> get_serializable_color(side.color)])
  ELSE PyNone

FontStyle(cell) ==
  IF Truthy(cell.font)
  THEN "font" :> PyDict(DictFilter([name |-> cell.font.name,
                                    sz |-> cell.font.sz,
                                    bold |-> cell.font.bold,
                                    italic |-> cell.font.italic,
                                    color |-> get_serializable_color(cell.font.color)]))
  ELSE EmptyMap

FillStyle(cell) ==
  IF Truthy(cell.fill) /\ Truthy(cell.fill.fill_type)
  THEN "fill" :> PyDict(DictFilter([pattern |-> cell.fill.fill_type,
                                    start_color |-> get_serializable_color(cell.fill.start_color),
                                    end_color |-> get_serializable_color(cell.fill.end_color)]))
  ELSE EmptyMap

BorderStyle(cell) ==
  IF Truthy(cell.border)
  THEN "border" :> PyDict(DictFilter([left |-> get_side_style(cell.border.left),
                                      right |-> get_side_style(cell.border.right),
                                      top |-> get_side_style(cell.border.top),
                                      bottom |-> get_side_style(cell.border.bottom)]))
  ELSE EmptyMap

AlignmentStyle(cell) ==
  IF Truthy(cell.alignment)
  THEN "alignment" :> PyDict(DictFilter([horizontal |-> cell.alignment.horizontal,
                                         vertical |-> cell.alignment.vertical,
                                         wrap_text |-> cell.alignment.wrap_text]))
  ELSE EmptyMap

NumFmtStyle(cell) ==
  IF Truthy(cell.number_format) /\ cell.number_format # PyStr("General")
  THEN "numFmt" :> cell.number_format
  ELSE EmptyMap

extract_styles_from_cell(cell) ==
  IF ~cell.has_style
  THEN PyDict(EmptyMap)
  ELSE PyDict(FontStyle(cell) @@ FillStyle(cell) @@ BorderStyle(cell)
              @@ AlignmentStyle(cell) @@ NumFmtStyle(cell))

\* ------------------------------------------------------- library objects
Color(rgb, kind) == [t |-> "obj", cls |-> "Color", rgb |-> rgb, type |-> kind]

ColorRefs ==
  { PyNone,
    Color(PyStr("FFFF0000"), "rgb"),
    Color(PyStr("00ff00"), "rgb"),
    Color(PyNone, "theme"),
    Color(PyNone, "indexed") }

Side(style, color) == [t |-> "obj", cls |-> "Side", style |-> style, color |-> color]

Sides ==
  { PyNone, Side(PyNone, PyNone) } \cup { Side(PyStr("thin"), c) : c \in ColorRefs }

NoSide == Side(PyNone, PyNone)

Font(name, sz, bold, italic, color) ==
  [t |-> "obj", cls |-> "Font", name |-> name, sz |-> sz, bold |-> bold,
   italic |-> italic, color |-> color]

Fonts ==
  { Font(n[1], n[2], PyBool(b), PyBool(FALSE), c) :
      n \in { <<PyNone, PyNone>>, <<PyStr("Calibri"), PyInt(11)>>, <<PyNone, PyInt(14)>> },
      b \in BOOLEAN, c \in ColorRefs }

PatternFill(ft, sc, ec) ==
  [t |-> "obj", cls |-> "PatternFill", fill_type |-> ft, start_color |-> sc, end_color |-> ec]

Fills ==
  { PatternFill(PyNone, PyNone, PyNone) }
    \cup { PatternFill(PyStr("solid"), c, Color(PyStr("FF000000"), "rgb")) : c \in ColorRefs }

Border(l, r, tp, b) ==
  [t |-> "obj", cls |-> "Border", left |-> l, right |-> r, top |-> tp, bottom |-> b]

Borders == { Border(s, NoSide, PyNone, Side(PyStr("thick"), PyNone)) : s \in Sides }

Alignment(h, v, w) ==
  [t |-> "obj", cls |-> "Alignment", horizontal |-> h, vertical |-> v, wrap_text |-> w]

Alignments == { Alignment(PyNone, PyNone, PyNone), Alignment(PyStr("center"), PyNone, PyBool(TRUE)) }

Cell(coord, value, hs, font, fill, border, al, nf) ==
  [t |-> "obj", cls |-> "Cell", coordinate |-> coord, value |-> value, has_style |-> hs,
   font |-> font, fill |-> fill, border |-> border, alignment |-> al, number_format |-> nf]

MergedCell(coord) ==
  [t |-> "obj", cls |-> "MergedCell", coordinate |-> coord, value |-> PyNone]

StyledCells ==
  { Cell("A1", PyStr("Hello"), hs, f, fl, b, Alignment(PyNone, PyNone, PyNone), nf) :
      hs \in BOOLEAN, f \in Fonts, fl \in Fills, b \in Borders,
      nf \in { PyStr("General"), PyStr("0.00") } }

\* ------------------------------------------------ style normalizer spec
InitCommon ==
  /\ pc = "ready"
  /\ loadCalls = 0
  /\ faultLog = <<>>
  /\ response = PyNone
  /\ ret = PyNone

InitStyle ==
  /\ InitCommon
  /\ request = PyNone
  /\ arg \in StyledCells

ExtractStyles ==
  /\ pc = "ready"
  /\ pc' = "done"
  /\ ret' = extract_styles_from_cell(arg)
  /\ UNCHANGED <<request, response, arg, loadCalls, faultLog>>

NextStyle == ExtractStyles

SpecStyle == InitStyle /\ [][NextStyle]_vars

\* --------------------------------------------- conditional-format rules
ColorScale(colors, cfvos) ==
  [t |-> "obj", cls |-> "ColorScale", color |-> PyList(colors), cfvo |-> PyList(cfvos)]

Cfvo(val) == [t |-> "obj", cls |-> "FormatObject", val |-> val]

DataBar(color, mn, mx) ==
  [t |-> "obj", cls |-> "DataBar", color |-> color, minLength |-> mn, maxLength |-> mx]

Rule(cls, type, priority, colorScale, dataBar, formula) ==
  [t |-> "obj", cls |-> cls, type |-> type, priority |-> priority,
   colorScale |-> colorScale, dataBar |-> dataBar, formula |-> formula]

\* A rule object that exposes no formula attribute at all.
RuleNoFormula(cls, type, priority) ==
  [t |-> "obj", cls |-> cls, type |-> type, priority |-> priority,
   colorScale |-> PyNone, dataBar |-> PyNone]

Scale3 ==
  ColorScale(<<Color(PyStr("FFF8696B"), "rgb"), Color(PyStr("FFFFEB84"), "rgb"),
               Color(PyStr("FF63BE7B"), "rgb")>>,
             <<Cfvo(PyNone), Cfvo(PyInt(50)), Cfvo(PyNone)>>)

Scale2 ==
  ColorScale(<<Color(PyNone, "theme"), Color(PyStr("FF00FF00"), "rgb")>>,
             <<Cfvo(PyInt(0)), Cfvo(PyInt(100))>>)

Bar == DataBar(Color(PyStr("FF638EC6"), "rgb"), PyInt(10), PyInt(90))

RuleSet ==
  { Rule("ColorScaleRule", PyStr("colorScale"), PyInt(1), Scale3, PyNone, PyList(<<>>)),
    Rule("Rule", PyStr("colorScale"), PyInt(2), Scale2, PyNone, PyList(<<>>)),
    Rule("DataBarRule", PyStr("dataBar"), PyInt(3), PyNone, Bar, PyList(<<>>)),
    Rule("Rule", PyStr("dataBar"), PyInt(4), PyNone, Bar, PyList(<<>>)),
    Rule("Rule", PyStr("expression"), PyInt(5), PyNone, PyNone, PyList(<<PyStr("A1>5")>>)),
    Rule("Rule", PyStr("cellIs"), PyInt(6), PyNone, PyNone, PyList(<<PyStr("1"), PyStr("5")>>)),
    Rule("Rule", PyStr("expression"), PyInt(7), PyNone, PyNone, PyStr("B1<0")),
    Rule("Rule", PyStr("duplicateValues"), PyInt(8), PyNone, PyNone, PyList(<<>>)),
    RuleNoFormula("Rule", PyStr("top10"), PyInt(9)) }

hasattr(obj, name) == name \in DOMAIN obj

RulePayload(rule) ==
  IF isinstance(rule, "ColorScaleRule") /\ Truthy(rule.colorScale)
  THEN "color_scale" :>
         PyDict([colors |-> PyList(Map(get_serializable_color, rule.colorScale.color.l)),
                 values |-> PyList(Map(LAMBDA cfvo : cfvo.val, rule.colorScale.cfvo.l))])
  ELSE IF isinstance(rule, "DataBarRule") /\ Truthy(rule.dataBar)
  THEN "data_bar" :>
         PyDict([color |-> get_serializable_color(rule.dataBar.color),
                 min_length |-> rule.dataBar.minLength,
                 max_length |-> rule.dataBar.maxLength])
  ELSE IF hasattr(rule, "formula") /\ Truthy(rule.formula)
  THEN "formula" :> rule.formula
  ELSE EmptyMap

rule_info(range_string, rule) ==
  PyDict([range |-> PyStr(range_string), type |-> rule.type] @@ RulePayload(rule))

\* ws.conditional_formatting: ordered mapping range -> rules, as a sequence
\* of [range, rules] pairs in stored order.
extract_conditional_formats(ws) ==
  PyList(Flatten(Map(LAMBDA g : Map(LAMBDA rule : rule_info(g.range, rule), g.rules),
                     ws.conditional_formatting)))

SeqsUpTo(S, n) == UNION { [1..k -> S] : k \in 0..n }

Groups(rules, k) ==
  SelectSeq(<<[range |-> "A1:A10", rules |-> SubSeq(rules, 1, k)],
              [range |-> "B1:B5", rules |-> SubSeq(rules, k + 1, Len(rules))]>>,
            LAMBDA g : Len(g.rules) > 0)

CFSheets ==
  { [conditional_formatting |-> Groups(rules, k)] :
      <<rules, k>> \in { p \in SeqsUpTo(RuleSet, MaxRules) \X (0..MaxRules) : p[2] <= Len(p[1]) } }

InitCF ==
  /\ InitCommon
  /\ request = PyNone
  /\ arg \in CFSheets

ExtractConditionalFormats ==
  /\ pc = "ready"
  /\ pc' = "done"
  /\ ret' = extract_conditional_formats(arg)
  /\ UNCHANGED <<request, response, arg, loadCalls, faultLog>>

NextCF == ExtractConditionalFormats

SpecCF == InitCF /\ [][NextCF]_vars

\* ---------------------------------------------------------------- charts
\* Result of a call that may raise: a value, or the raised exception.
Ok(v) == [ok |-> TRUE, val |-> v]
Raise(msg) == [ok |-> FALSE, exc |-> msg]

Letters ==
  <<"A", "B", "C", "D", "E", "F", "G", "H", "I", "J", "K", "L", "M",
    "N", "O", "P", "Q", "R", "S", "T", "U", "V", "W", "X", "Y", "Z">>

\* str(x): a string is itself, None is "None", a cell range renders as its
\* coordinates, any other library object as its default object rendering.
str(v) ==
  CASE v.t = "str" -> v
    [] v.t = "none" -> PyStr("None")
    [] v.t = "int" -> PyStr(ToString(v.i))
    [] v.t = "obj" /\ v.cls = "CellRange" -> PyStr(v.coord)
    [] OTHER -> PyStr("<" \o v.cls \o " object>")

AnchorMarker(col, row) == [t |-> "obj", cls |-> "AnchorMarker", col |-> col, row |-> row]

TwoCellAnchor(c1, r1, c2, r2) ==
  [t |-> "obj", cls |-> "TwoCellAnchor", from |-> AnchorMarker(c1, r1), to |-> AnchorMarker(c2, r2)]

Anchors == { PyStr("E15"), TwoCellAnchor(0, 0, 5, 9), TwoCellAnchor(2, 3, 7, 17) }

Text(text) == [t |-> "obj", cls |-> "Text", text |-> text]

Title(text) == [t |-> "obj", cls |-> "Title", text |-> text]

\* A title text object that exposes rich text but no text attribute.
RichText == [t |-> "obj", cls |-> "Text", rich |-> PyStr("Sales")]

Titles == { PyNone, Title(PyNone), Title(Text(PyStr("Sales"))), Title(RichText) }

Ref(ref) == [t |-> "obj", cls |-> "Reference", ref |-> ref]

NoRef == [t |-> "obj", cls |-> "NumData"]

SeriesObj(tx, val, cat) == [t |-> "obj", cls |-> "Series", tx |-> tx, val |-> val, cat |-> cat]

SeriesLists ==
  { <<>>,
    <<SeriesObj([t |-> "obj", cls |-> "SeriesLabel", v |-> PyStr("Q1")],
                Ref(PyStr("Hoja1!$F$2:$F$7")), Ref(PyStr("Hoja1!$A$2:$A$7")))>>,
    <<SeriesObj(PyNone, NoRef, PyNone),
      SeriesObj(PyNone, Ref(PyStr("Hoja1!$B$2:$B$7")), PyNone)>> }

ChartObj(cls, title, anchor, series) ==
  [t |-> "obj", cls |-> cls, title |-> title, anchor |-> anchor, series |-> PyList(series)]

ChartSet ==
  { ChartObj(IF a.t = "str" THEN "PieChart" ELSE "BarChart", ti, a, ss) :
      ti \in Titles, a \in Anchors, ss \in SeriesLists }

series_info(s) ==
  PyDict([header |-> IF Truthy(s.tx) THEN s.tx.v ELSE PyNone,
          values |-> IF Truthy(s.val) /\ hasattr(s.val, "ref") THEN str(s.val.ref) ELSE PyNone,
          categories |-> IF Truthy(s.cat) /\ hasattr(s.cat, "ref") THEN str(s.cat.ref) ELSE PyNone])

\* chart.title.text.text raises AttributeError when the title's text object
\* has no text attribute.
TitleRaises(chart) ==
  Truthy(chart.title) /\ Truthy(chart.title.text) /\ ~hasattr(chart.title.text, "text")

chart_info(chart) ==
  IF TitleRaises(chart)
  THEN Raise("'" \o chart.title.text.cls \o "' object has no attribute 'text'")
  ELSE Ok(PyDict([type |-> PyStr(chart.cls),
                  title |-> IF Truthy(chart.title) /\ Truthy(chart.title.text)
                            THEN chart.title.text.text ELSE PyNone,
                  anchor |-> str(chart.anchor),
                  series |-> PyList(Map(series_info, chart.series.l))]))

\* The loop over the charts: the first raising chart abandons it.
RECURSIVE ChartLoop(_, _, _)
ChartLoop(charts, i, charts_data) ==
  IF i > Len(charts)
  THEN Ok(PyList(charts_data))
  ELSE LET ci == chart_info(charts[i])
       IN  IF ~ci.ok THEN ci ELSE ChartLoop(charts, i + 1, Append(charts_data, ci.val))

\* "for chart in ws._charts": the attribute access raises AttributeError on
\* a sheet object that has no _charts attribute.
extract_charts(ws) ==
  IF ~hasattr(ws, "_charts")
  THEN Raise("'" \o ws.cls \o "' object has no attribute '_charts'")
  ELSE ChartLoop(ws["_charts"].l, 1, <<>>)

WithCharts(ws, charts) == ws @@ ("_charts" :> PyList(charts))

BareSheet == [t |-> "obj", cls |-> "Worksheet"]

ChartSheets ==
  { BareSheet } \cup { WithCharts(BareSheet, cs) : cs \in SeqsUpTo(ChartSet, MaxCharts) }

InitCharts ==
  /\ InitCommon
  /\ request = PyNone
  /\ arg \in ChartSheets

ExtractCharts ==
  /\ pc = "ready"
  /\ pc' = "done"
  /\ ret' = extract_charts(arg)
  /\ UNCHANGED <<request, response, arg, loadCalls, faultLog>>

NextCharts == ExtractCharts

SpecCharts == InitCharts /\ [][NextCharts]_vars

\* -------------------------------------------------------------- workbook
DefaultFont == Font(PyStr("Calibri"), PyInt(11), PyBool(FALSE), PyBool(FALSE), PyNone)

DefaultFill == PatternFill(PyNone, PyNone, PyNone)

DefaultBorder == Border(NoSide, NoSide, NoSide, NoSide)

DefaultAlignment == Alignment(PyNone, PyNone, PyNone)

Coordinate(r, c) == Letters[c] \o ToString(r)

\* The cell the library yields at row r, column c: B1 is the placeholder of
\* a merge over A1:B1, A1 is a styled cell, every other cell is unstyled and
\* alternately empty.
GridCell(r, c, merge) ==
  IF merge /\ r = 1 /\ c = 2
  THEN MergedCell(Coordinate(r, c))
  ELSE IF r = 1 /\ c = 1
  THEN Cell(Coordinate(r, c), PyStr("Hello"), TRUE,
            Font(PyNone, PyInt(14), PyBool(TRUE), PyBool(FALSE), PyNone),
            DefaultFill, DefaultBorder, DefaultAlignment, PyStr("General"))
  ELSE Cell(Coordinate(r, c), IF (r + c) % 2 = 1 THEN PyNone ELSE PyInt(10 * r + c), FALSE,
            DefaultFont, DefaultFill, DefaultBorder, DefaultAlignment, PyStr("General"))

CellRange(coord) == [t |-> "obj", cls |-> "CellRange", coord |-> coord]

RichRules ==
  <<[range |-> "A1:A10",
     rules |-> <<Rule("ColorScaleRule", PyStr("colorScale"), PyInt(1), Scale3, PyNone, PyList(<<>>)),
                 Rule("Rule", PyStr("expression"), PyInt(2), PyNone, PyNone,
                      PyList(<<PyStr("A1>5")>>))>>]>>

RichCharts ==
  <<ChartObj("BarChart", Title(Text(PyStr("Sales"))), TwoCellAnchor(0, 0, 5, 9), <<>>)>>

\* A chart whose title text has no text attribute.
BadCharts == <<ChartObj("PieChart", Title(RichText), PyStr("E15"), <<>>)>>

SheetKinds == { "plain", "rich", "nocharts", "badchart" }

Worksheet(title, nrows, ncols, merge, kind) ==
  LET base == [t |-> "obj", cls |-> "Worksheet", title |-> title,
               merged_cells |-> [ranges |-> IF merge THEN <<CellRange("A1:B1")>> ELSE <<>>],
               iter_rows |-> [r \in 1..nrows |-> [c \in 1..ncols |-> GridCell(r, c, merge)]],
               conditional_formatting |-> IF kind = "rich" THEN RichRules ELSE <<>>]
  IN  IF kind = "nocharts" THEN base
      ELSE WithCharts(base, IF kind = "rich" THEN RichCharts
                            ELSE IF kind = "badchart" THEN BadCharts ELSE <<>>)

SheetShapes ==
  { sh \in [nrows : 1..MaxRows, ncols : 1..MaxCols, merge : BOOLEAN, kind : SheetKinds] :
      sh.merge => sh.ncols >= 2 }

SheetName(i) == "Sheet" \o ToString(i)

Workbook(shapes) ==
  [sheetnames |-> [i \in 1..Len(shapes) |-> SheetName(i)],
   sheets |-> [n \in { SheetName(i) : i \in 1..Len(shapes) } |->
                 LET i == CHOOSE j \in 1..Len(shapes) : SheetName(j) = n
                 IN  Worksheet(n, shapes[i].nrows, shapes[i].ncols, shapes[i].merge,
                               shapes[i].kind)]]

Workbooks == { Workbook(shapes) : shapes \in SeqsUpTo(SheetShapes, MaxSheets) \ { <<>> } }

\* Uploaded bytes, identified with what the parsing library makes of them.
FileContents ==
  { [decodes |-> Raise("File is not a zip file")] } \cup { [decodes |-> Ok(wb)] : wb \in Workbooks }

FileStorage(filename, content) == [filename |-> filename, content |-> content]

SomeWorkbook == Workbook(<<[nrows |-> 1, ncols |-> 1, merge |-> FALSE, kind |-> "plain"]>>)

Requests ==
  { [route |-> "/health", files |-> EmptyMap],
    [route |-> "/parse-excel", files |-> EmptyMap],
    [route |-> "/parse-excel",
     files |-> ("file" :> FileStorage("a.xlsx", [decodes |-> Ok(SomeWorkbook)]))],
    [route |-> "/parse-excel",
     files |-> ("excel_file" :> FileStorage("", [decodes |-> Ok(SomeWorkbook)]))] }
    \cup { [route |-> "/parse-excel", files |-> ("excel_file" :> FileStorage("a.xlsx", c))] :
             c \in FileContents }

\* --------------------------------------------------------------- handler
load_workbook(content) == content.decodes

\* Variant of cell_info that also attaches a style to a merged placeholder.
cell_info_merged_styled(cell) ==
  PyDict([address |-> PyStr(cell.coordinate), value |-> cell.value]
         @@ (IF isinstance(cell, "MergedCell")
             THEN [is_merged_part |-> PyBool(TRUE), style |-> PyDict(EmptyMap)]
             ELSE "style" :> extract_styles_from_cell(cell)))

cell_info(cell) ==
  PyDict([address |-> PyStr(cell.coordinate), value |-> cell.value]
         @@ (IF isinstance(cell, "MergedCell")
             THEN "is_merged_part" :> PyBool(TRUE)
             ELSE "style" :> extract_styles_from_cell(cell)))

\* Variant of rows_data that leaves out the records of empty cells.
rows_data_skip_empty(ws) ==
  Map(LAMBDA row : PyList(SelectSeq(Map(cell_info, row), LAMBDA rec : ~IsNone(rec.d.value))),
      ws.iter_rows)

rows_data(ws) == Map(LAMBDA row : PyList(Map(cell_info, row)), ws.iter_rows)

sheet_data(wb, sheet_name) ==
  LET ws == wb.sheets[sheet_name]
      charts == extract_charts(ws)
  IN  IF ~charts.ok
      THEN charts
      ELSE Ok(PyDict([name |-> PyStr(sheet_name),
                      merged_cells |-> PyList(Map(str, ws.merged_cells.ranges)),
                      data |-> PyList(rows_data(ws)),
                      conditional_formats |-> extract_conditional_formats(ws),
                      charts |-> charts.val]))

\* Variant of SheetLoop that returns the sheets gathered before a failure.
SheetLoop_partial(wb, i, sheets) ==
  LET bad == { j \in 1..Len(wb.sheetnames) : ~sheet_data(wb, wb.sheetnames[j]).ok }
      n == IF bad = {} THEN Len(wb.sheetnames)
           ELSE (CHOOSE j \in bad : \A k \in bad : j <= k) - 1
  IN  Ok(PyDict([sheets |-> PyList([j \in 1..n |-> sheet_data(wb, wb.sheetnames[j]).val])]))

\* The loop over wb.sheetnames: the first raising sheet abandons the loop.
RECURSIVE SheetLoop(_, _, _)
SheetLoop(wb, i, sheets) ==
  IF i > Len(wb.sheetnames)
  THEN Ok(PyDict([sheets |-> PyList(sheets)]))
  ELSE LET sd == sheet_data(wb, wb.sheetnames[i])
       IN  IF ~sd.ok THEN sd ELSE SheetLoop(wb, i + 1, Append(sheets, sd.val))

TryBody(file) ==
  LET wb == load_workbook(file.content)
  IN  IF ~wb.ok THEN wb ELSE SheetLoop(wb.val, 1, <<>>)

Resp(status, body) == [status |-> status, body |-> body]

ErrorPrefix == "Error interno al procesar el archivo Excel: "

\* Variant of parse_excel without the empty-filename check.
parse_excel_no_filename_check(req) ==
  IF "excel_file" \notin DOMAIN req.files
  THEN [response |-> Resp(400, PyDict([error |-> PyStr("No se encontró el archivo en la petición (se esperaba el campo 'excel_file').")])),
        loads |-> 0, log |-> <<>>]
  ELSE LET r == TryBody(req.files["excel_file"])
       IN  IF r.ok
           THEN [response |-> Resp(200, r.val), loads |-> 1, log |-> <<>>]
           ELSE [response |-> Resp(500, PyDict([error |-> PyStr(ErrorPrefix \o r.exc)])),
                 loads |-> 1, log |-> <<"Error en /parse-excel: " \o r.exc>>]

parse_excel(req) ==
  IF "excel_file" \notin DOMAIN req.files
  THEN [response |-> Resp(400, PyDict([error |-> PyStr("No se encontró el archivo en la petición (se esperaba el campo 'excel_file').")])),
        loads |-> 0, log |-> <<>>]
  ELSE LET file == req.files["excel_file"]
       IN  IF file.filename = ""
           THEN [response |-> Resp(400, PyDict([error |-> PyStr("No se seleccionó ningún archivo.")])),
                 loads |-> 0, log |-> <<>>]
           ELSE LET r == TryBody(file)
                IN  IF r.ok
                    THEN [response |-> Resp(200, r.val), loads |-> 1, log |-> <<>>]
                    ELSE [response |-> Resp(500, PyDict([error |-> PyStr(ErrorPrefix \o r.exc)])),
                          loads |-> 1, log |-> <<"Error en /parse-excel: " \o r.exc>>]

health_check == Resp(200, PyDict([status |-> PyStr("ok")]))

Init ==
  /\ InitCommon
  /\ arg = PyNone
  /\ request \in Requests

ParseExcel ==
  /\ pc = "ready"
  /\ request.route = "/parse-excel"
  /\ LET out == parse_excel(request)
     IN  /\ response' = out.response
         /\ loadCalls' = loadCalls + out.loads
         /\ faultLog' = faultLog \o out.log
  /\ pc' = "done"
  /\ UNCHANGED <<request, arg, ret>>

HealthCheck ==
  /\ pc = "ready"
  /\ request.route = "/health"
  /\ response' = health_check
  /\ pc' = "done"
  /\ UNCHANGED <<request, arg, ret, loadCalls, faultLog>>

Next == ParseExcel \/ HealthCheck

Spec == Init /\ [][Next]_vars

\* ------------------------------------------------------------ properties
Resolvable(c) == c.t = "obj" /\ IsStr(c.rgb) /\ c.rgb.s # ""

\* What the claim requires of the colour emitted under key k of dict d for
\* the colour reference c.
ColorEmitted(c, d, k) ==
  IF IsNone(c)
  THEN k \notin DOMAIN d
  ELSE /\ k \in DOMAIN d
       /\ IsStr(d[k])
       /\ Resolvable(c) => d[k] = c.rgb

\* C1: every non-null colour reference reached by the style normalizer is
\* emitted as a string (the hex value when resolvable, a best-effort string
\* otherwise); only a null reference yields absence of the colour field.
C1_ColorResolutionTotal ==
  (pc = "done" /\ arg.has_style) =>
    /\ ColorEmitted(arg.font.color, ret.d.font.d, "color")
    /\ Truthy(arg.fill.fill_type) =>
         ColorEmitted(arg.fill.start_color, ret.d.fill.d, "start_color")
    /\ (Truthy(arg.border.left) /\ Truthy(arg.border.left.style)) =>
         ColorEmitted(arg.border.left.color, ret.d.border.d.left.d, "color")

\* The (range, rule) pairs of a sheet in stored order.
StoredRules(ws) ==
  Flatten(Map(LAMBDA g : Map(LAMBDA rule : [range |-> g.range, rule |-> rule], g.rules),
              ws.conditional_formatting))

\* C2: one record per rule of every rule group, in stored order, each with
\* the base keys range, type and priority (an integer), whatever payload the
\* rule carries.
C2_OneRecordPerRuleWithBaseKeys ==
  pc = "done" =>
    /\ Len(ret.l) = Len(StoredRules(arg))
    /\ \A i \in 1..Len(ret.l) :
         /\ { "range", "type", "priority" } \subseteq DOMAIN ret.l[i].d
         /\ ret.l[i].d.range = PyStr(StoredRules(arg)[i].range)
         /\ ret.l[i].d.type = StoredRules(arg)[i].rule.type
         /\ IsInt(ret.l[i].d.priority)

\* C3: every rule that carries a colour-scale payload (by attribute
\* presence) is emitted with a color_scale entry whose colors and values
\* have the same length, one per stop of the payload.
C3_ColorScaleAligned ==
  pc = "done" =>
    \A i \in 1..Len(ret.l) :
      LET rule == StoredRules(arg)[i].rule
      IN  (hasattr(rule, "colorScale") /\ Truthy(rule.colorScale)) =>
            /\ "color_scale" \in DOMAIN ret.l[i].d
            /\ Len(ret.l[i].d.color_scale.d.colors.l) = Len(ret.l[i].d.color_scale.d.values.l)
            /\ Len(ret.l[i].d.color_scale.d.colors.l) = Len(rule.colorScale.color.l)

\* C4: every rule with a non-empty formula payload and no colour-scale or
\* data-bar payload is emitted with a formula that is a single string: the
\* first element of a sequence, or the raw string.
C4_FormulaIsSingleString ==
  pc = "done" =>
    \A i \in 1..Len(ret.l) :
      LET rule == StoredRules(arg)[i].rule
      IN  (/\ ~Truthy(rule.colorScale)
           /\ ~Truthy(rule.dataBar)
           /\ hasattr(rule, "formula")
           /\ Truthy(rule.formula)) =>
            /\ "formula" \in DOMAIN ret.l[i].d
            /\ IsStr(ret.l[i].d.formula)
            /\ ret.l[i].d.formula =
                 (IF rule.formula.t = "list" THEN rule.formula.l[1] ELSE rule.formula)

\* The request passed validation and its handler has answered.
Parsed ==
  /\ pc = "done"
  /\ request.route = "/parse-excel"
  /\ "excel_file" \in DOMAIN request.files
  /\ request.files["excel_file"].filename # ""

Uploaded == request.files["excel_file"].content.decodes

Succeeded == Parsed /\ response.status = 200

UploadedSheet(i) == Uploaded.val.sheets[Uploaded.val.sheetnames[i]]

SheetsOut == response.body.d.sheets.l

\* The record emitted at the place of cell (r, c) of sheet i.
CellOut(i, r, c) == SheetsOut[i].d.data.l[r].l[c]

GridAligned ==
  /\ Len(SheetsOut) = Len(Uploaded.val.sheetnames)
  /\ \A i \in 1..Len(SheetsOut) :
       /\ Len(SheetsOut[i].d.data.l) = Len(UploadedSheet(i).iter_rows)
       /\ \A r \in 1..Len(UploadedSheet(i).iter_rows) :
            Len(SheetsOut[i].d.data.l[r].l) = Len(UploadedSheet(i).iter_rows[r])

\* C5: in a successful response a merged placeholder cell yields exactly
\* {address, value, is_merged_part: true} and every other cell exactly
\* {address, value, style} with the normalized style.
C5_CellRecordShapes ==
  Succeeded =>
    /\ GridAligned
    /\ \A i \in 1..Len(SheetsOut) :
         \A r \in 1..Len(UploadedSheet(i).iter_rows) :
           \A c \in 1..Len(UploadedSheet(i).iter_rows[r]) :
             LET cell == UploadedSheet(i).iter_rows[r][c]
                 rec == CellOut(i, r, c).d
             IN  IF cell.cls = "MergedCell"
                 THEN /\ DOMAIN rec = { "address", "value", "is_merged_part" }
                      /\ rec.is_merged_part = PyBool(TRUE)
                 ELSE /\ DOMAIN rec = { "address", "value", "style" }
                      /\ rec.style = extract_styles_from_cell(cell)

C5_Witness ==
  /\ Succeeded
  /\ Len(SheetsOut) = 2
  /\ Len(UploadedSheet(2).iter_rows[1]) = 2
  /\ Len(SheetsOut[2].d.data.l[1].l) = 2
  /\ UploadedSheet(2).iter_rows[1][2].cls = "MergedCell"
  /\ CellOut(2, 1, 2).d = [address |-> PyStr("B1"), value |-> PyNone,
                           is_merged_part |-> PyBool(TRUE)]
  /\ CellOut(2, 1, 1).d.style.d.font = PyDict([bold |-> PyBool(TRUE), sz |-> PyInt(14)])
  /\ SheetsOut[2].d.merged_cells = PyList(<<PyStr("A1:B1")>>)

\* The message of the first exception raised while handling the upload, or
\* "" when none is raised.
SheetFails(i) ==
  \/ "_charts" \notin DOMAIN UploadedSheet(i)
  \/ \E k \in 1..Len(UploadedSheet(i)["_charts"].l) :
       LET title == UploadedSheet(i)["_charts"].l[k].title
       IN  title.t = "obj" /\ title.text.t = "obj" /\ "text" \notin DOMAIN title.text

FirstFailure ==
  IF ~Uploaded.ok
  THEN Uploaded.exc
  ELSE LET bad == { i \in 1..Len(Uploaded.val.sheetnames) : SheetFails(i) }
       IN  IF bad = {} THEN ""
           ELSE LET i == CHOOSE j \in bad : \A k \in bad : j <= k
                IN  IF "_charts" \notin DOMAIN UploadedSheet(i)
                    THEN "'Worksheet' object has no attribute '_charts'"
                    ELSE "'Text' object has no attribute 'text'"

\* C6: an exception raised anywhere during decoding or extraction gives a
\* 500 whose body holds only the error field, prefix plus message; sheet
\* data gathered before the failure is not returned.
C6_FailureIsBare500 ==
  (Parsed /\ FirstFailure # "") =>
    /\ response.status = 500
    /\ DOMAIN response.body.d = { "error" }
    /\ response.body.d.error = PyStr(ErrorPrefix \o FirstFailure)

C6_Witness ==
  /\ Parsed
  /\ Uploaded.ok
  /\ Len(Uploaded.val.sheetnames) = 2
  /\ "_charts" \in DOMAIN UploadedSheet(1)
  /\ "_charts" \notin DOMAIN UploadedSheet(2)
  /\ response.status = 500
  /\ DOMAIN response.body.d = { "error" }

\* C7: a request without the excel_file field, or with an empty filename,
\* is answered 400 with an error field; the parsing library is not invoked
\* and nothing is logged as a server fault.
C7_ValidationBeforeParsing ==
  (/\ pc = "done"
   /\ request.route = "/parse-excel"
   /\ \/ "excel_file" \notin DOMAIN request.files
      \/ request.files["excel_file"].filename = "") =>
    /\ response.status = 400
    /\ "error" \in DOMAIN response.body.d
    /\ IsStr(response.body.d.error)
    /\ loadCalls = 0
    /\ faultLog = <<>>

C7_Witness ==
  /\ pc = "done"
  /\ "excel_file" \in DOMAIN request.files
  /\ request.files["excel_file"].filename = ""
  /\ request.files["excel_file"].content.decodes.ok
  /\ response.status = 400
  /\ loadCalls = 0

\* C8: extract_charts on a sheet without any chart-storage attribute
\* returns an empty sequence and raises no error.
C8_NoChartStorageGivesEmpty ==
  (pc = "done" /\ "_charts" \notin DOMAIN arg) => ret = Ok(PyList(<<>>))

\* The cell rectangle of a structured anchor: 0-indexed offsets converted to
\* 1-indexed column-letter/row-number notation.
CellRectangle(anchor) ==
  Coordinate(anchor.from.row + 1, anchor.from.col + 1) \o ":"
    \o Coordinate(anchor.to.row + 1, anchor.to.col + 1)

\* C9: a chart whose anchor exposes from/to offsets is emitted with the
\* cell-rectangle string of those offsets; any other anchor with its raw
\* string rendering; anchor extraction does not raise.
C9_AnchorIsCellRectangle ==
  (pc = "done" /\ "_charts" \in DOMAIN arg /\ \A k \in 1..Len(arg["_charts"].l) :
                                                ~TitleRaises(arg["_charts"].l[k])) =>
    /\ ret.ok
    /\ Len(ret.val.l) = Len(arg["_charts"].l)
    /\ \A i \in 1..Len(ret.val.l) :
         LET anchor == arg["_charts"].l[i].anchor
         IN  ret.val.l[i].d.anchor =
               (IF anchor.t = "obj" /\ "from" \in DOMAIN anchor /\ "to" \in DOMAIN anchor
                THEN PyStr(CellRectangle(anchor))
                ELSE str(anchor))

\* C10: a successful response has one sheet entry per workbook sheet in
\* workbook order, and each sheet's data is the row-major grid: one record
\* per cell of the used range, empty cells included, at the cell's place.
C10_RowMajorGrid ==
  Succeeded =>
    /\ GridAligned
    /\ \A i \in 1..Len(SheetsOut) :
         /\ SheetsOut[i].d.name = PyStr(Uploaded.val.sheetnames[i])
         /\ \A r \in 1..Len(UploadedSheet(i).iter_rows) :
              \A c \in 1..Len(UploadedSheet(i).iter_rows[r]) :
                /\ CellOut(i, r, c).d.address = PyStr(Coordinate(r, c))
                /\ CellOut(i, r, c).d.address = PyStr(UploadedSheet(i).iter_rows[r][c].coordinate)
                /\ CellOut(i, r, c).d.value = UploadedSheet(i).iter_rows[r][c].value

C10_Witness ==
  /\ Succeeded
  /\ Len(SheetsOut) = 2
  /\ Len(SheetsOut[1].d.data.l) = 2
  /\ Len(SheetsOut[1].d.data.l[1].l) = 2
  /\ Len(SheetsOut[1].d.data.l[2].l) = 2
  /\ CellOut(1, 1, 2).d.value = PyNone
  /\ CellOut(1, 2, 1).d.address = PyStr("A2")
  /\ CellOut(1, 2, 2).d.value = PyInt(22)
  /\ Len(SheetsOut[2].d.data.l) = 1

====
